---- MODULE Spec2Model ----
(***************************************************************************)
(* Two-player LED + spacebar HID sketch (picostuff/picobutton.cpp).        *)
(*                                                                         *)
(* The sketch is a single-threaded polling loop.  One pass of loop() is    *)
(* modelled as three consecutive steps, in program order:                  *)
(*   LoopButton  lines 86-105  clock read, button sample, key emission     *)
(*   LoopSerial  lines 107-132 at most one command byte                    *)
(*   LoopBlink   lines 134-138 both updateBlink calls and the idle delay   *)
(* The serial receiver (Receive) delivers bytes ahead of LoopSerial.       *)
(***************************************************************************)
EXTENDS Integers, Sequences, FiniteSets, TLC

\* ---------------------------------------------------------------- bounds
\* Passes of loop() explored, and bytes the receive buffer may hold, where
\* every byte is delivered (Spec).
MaxIter == 2
MaxRx == 1
\* The same where the timing is explored (SpecTiming).
MaxIterT == 3
MaxRxT == 2
\* Passes where the two indicators blink side by side (SpecPhase).
MaxIterP == 3
MaxRxP == 1
\* Passes and buffered bytes where progress is checked under fairness
\* (SpecLive).
MaxIterL == 4
MaxRxL == 1

\* ------------------------------------------------------- program constants
HoldMs == 50
IdleMs == 1
\* 2^31 - 1: half the range of the 32-bit unsigned long holding timestamps.
ULONG_HALF == 2147483647

LOW == "LOW"
HIGH == "HIGH"
Levels == {LOW, HIGH}

P1_LED_PIN == "GP16"
P2_LED_PIN == "GP17"
PI_LED == "LED_BUILTIN"
BUTTON_LED == "GP19"
BUTTON_PIN == "GP18"
OutputPins == {P1_LED_PIN, P2_LED_PIN, BUTTON_LED, PI_LED}

OFF_MODE == "OFF_MODE"
SOLID_ON == "SOLID_ON"
BLINK_1HZ == "BLINK_1HZ"
BLINK_2HZ == "BLINK_2HZ"
BLINK_4HZ == "BLINK_4HZ"
LedMode == {OFF_MODE, SOLID_ON, BLINK_1HZ, BLINK_2HZ, BLINK_4HZ}

\* ------------------------------------------------------------ environment
\* Bytes the serial line delivers: the twelve command characters and three
\* characters outside the table (two of them lower-case twins of commands).
Bytes == {"A", "a", "B", "b", "Y", "X", "1", "2", "3", "4", "5", "6",
          "y", "x", "?"}
\* Milliseconds millis() may advance between two consecutive reads.
Jitter == {0, 1}
\* Extra milliseconds a pass of loop() may take beyond delay(1).
\* Stalls: none, or a stall that makes the pass last one short of, exactly,
\* or twice the shortest blink period (sums of these reach the same marks
\* of the longer periods).
Stalls == {0, 123, 124, 249}
\* CoarseStalls: none, or one shortest blink period.
CoarseStalls == {0, 124}
\* Bytes delivered where timing is explored: the two static and two of the
\* blink commands for P1, and one byte outside the table.
TimingBytes == {"A", "a", "2", "3", "?"}

VARIABLES
    pc,         \* "setup" | "button" | "serial" | "blink": next code to run
    clock,      \* what millis() returns
    now,        \* loop()'s local `now`
    lastState,  \* global lastState
    P1, P2,     \* the two PlayerLed structs
    pins,       \* level last written to each output pin ("UNSET" if none)
    keys,       \* keys the HID keyboard currently reports as held
    rx,         \* bytes waiting in the serial receive buffer
    iter,       \* completed passes of loop()
    log,        \* external calls made by the most recent step, in order
    cmdFor,     \* history: last consumed byte naming each indicator (Targets)
    stall       \* history: indicators whose latest flip skipped periods

vars == <<pc, clock, now, lastState, P1, P2, pins, keys, rx, iter, log,
          cmdFor, stall>>

\* One external call, as recorded in log.
Call(op, arg, val) == [op |-> op, arg |-> arg, val |-> val]

\* struct PlayerLed with its default member initialisers.
PlayerLed(pin) ==
    [pin |-> pin, mode |-> OFF_MODE, lastToggleMs |-> 0, currentLevel |-> LOW]

modeToInterval(m) ==
    CASE m = BLINK_1HZ -> 500
      [] m = BLINK_2HZ -> 250
      [] m = BLINK_4HZ -> 125
      [] OTHER -> 0

\* The C++ test (a - b >= k) on 32-bit unsigned long, for 0 <= a, b, k < 2^31.
\* When a < b the subtraction wraps to 2^32 - (b - a); both sides of the
\* comparison are shifted down by 2^31 to stay inside TLC's integers.
ULongDiffGe(a, b, k) ==
    IF a >= b
    THEN a - b >= k
    ELSE (ULONG_HALF - (b - a)) + 1 >= (k - ULONG_HALF) - 1

\* Mutant of applyModeImmediate: a blink mode starts from LOW, written out.
applyModeImmediateBlinkLow(pl, ms) ==
    CASE pl.mode = SOLID_ON ->
            [pl |-> [pl EXCEPT !.currentLevel = HIGH, !.lastToggleMs = ms],
             out |-> <<Call("digitalWrite", pl.pin, HIGH)>>]
      [] OTHER ->
            [pl |-> [pl EXCEPT !.currentLevel = LOW, !.lastToggleMs = ms],
             out |-> <<Call("digitalWrite", pl.pin, LOW)>>]

\* applyModeImmediate(pl) with millis() returning ms: the new struct and the
\* output writes made.
applyModeImmediate(pl, ms) ==
    CASE pl.mode = OFF_MODE ->
            [pl |-> [pl EXCEPT !.currentLevel = LOW, !.lastToggleMs = ms],
             out |-> <<Call("digitalWrite", pl.pin, LOW)>>]
      [] pl.mode = SOLID_ON ->
            [pl |-> [pl EXCEPT !.currentLevel = HIGH, !.lastToggleMs = ms],
             out |-> <<Call("digitalWrite", pl.pin, HIGH)>>]
      [] OTHER ->
            [pl |-> [pl EXCEPT !.lastToggleMs = ms], out |-> <<>>]

\* Mutant of updateBlink: the test on the mode is missing.
updateBlinkAnyMode(pl, t) ==
    IF ULongDiffGe(t, pl.lastToggleMs, modeToInterval(pl.mode))
    THEN LET lvl == IF pl.currentLevel = LOW THEN HIGH ELSE LOW
         IN [pl |-> [pl EXCEPT !.currentLevel = lvl, !.lastToggleMs = t],
             out |-> <<Call("digitalWrite", pl.pin, lvl)>>]
    ELSE [pl |-> pl, out |-> <<>>]

\* Mutant of updateBlink: the timer advances by one period, not to now, so
\* that missed toggles are caught up by the following ticks.
updateBlinkCatchesUp(pl, t) ==
    IF /\ pl.mode \in {BLINK_1HZ, BLINK_2HZ, BLINK_4HZ}
       /\ ULongDiffGe(t, pl.lastToggleMs, modeToInterval(pl.mode))
    THEN LET lvl == IF pl.currentLevel = LOW THEN HIGH ELSE LOW
         IN [pl |-> [pl EXCEPT !.currentLevel = lvl,
                               !.lastToggleMs = @ + modeToInterval(pl.mode)],
             out |-> <<Call("digitalWrite", pl.pin, lvl)>>]
    ELSE [pl |-> pl, out |-> <<>>]

\* Mutant of updateBlink: a flip is recorded and not written to the pin.
updateBlinkNoWrite(pl, t) ==
    IF /\ pl.mode \in {BLINK_1HZ, BLINK_2HZ, BLINK_4HZ}
       /\ ULongDiffGe(t, pl.lastToggleMs, modeToInterval(pl.mode))
    THEN LET lvl == IF pl.currentLevel = LOW THEN HIGH ELSE LOW
         IN [pl |-> [pl EXCEPT !.currentLevel = lvl, !.lastToggleMs = t],
             out |-> <<>>]
    ELSE [pl |-> pl, out |-> <<>>]

\* Mutant of updateBlink: the level flips only at the very millisecond the
\* period ends (== for >=).
updateBlinkExactMatch(pl, t) ==
    IF /\ pl.mode \in {BLINK_1HZ, BLINK_2HZ, BLINK_4HZ}
       /\ t - pl.lastToggleMs = modeToInterval(pl.mode)
    THEN LET lvl == IF pl.currentLevel = LOW THEN HIGH ELSE LOW
         IN [pl |-> [pl EXCEPT !.currentLevel = lvl, !.lastToggleMs = t],
             out |-> <<Call("digitalWrite", pl.pin, lvl)>>]
    ELSE [pl |-> pl, out |-> <<>>]

\* updateBlink(pl, now): the new struct and the output writes made.
updateBlink(pl, t) ==
    IF /\ pl.mode \in {BLINK_1HZ, BLINK_2HZ, BLINK_4HZ}
       /\ ULongDiffGe(t, pl.lastToggleMs, modeToInterval(pl.mode))
    THEN LET lvl == IF pl.currentLevel = LOW THEN HIGH ELSE LOW
         IN [pl |-> [pl EXCEPT !.currentLevel = lvl, !.lastToggleMs = t],
             out |-> <<Call("digitalWrite", pl.pin, lvl)>>]
    ELSE [pl |-> pl, out |-> <<>>]

\* Pin levels after a sequence of calls.
RECURSIVE WritePins(_, _)
WritePins(p, calls) ==
    IF calls = <<>> THEN p
    ELSE LET c == Head(calls)
         IN WritePins(IF c.op = "digitalWrite"
                      THEN [p EXCEPT ![c.arg] = c.val] ELSE p,
                      Tail(calls))

Init ==
    /\ pc = "setup"
    /\ clock = 0
    /\ now = 0
    /\ lastState = HIGH
    /\ P1 = PlayerLed(P1_LED_PIN)
    /\ P2 = PlayerLed(P2_LED_PIN)
    /\ pins = [p \in OutputPins |-> "UNSET"]
    /\ keys = {}
    /\ rx = <<>>
    /\ iter = 0
    /\ log = <<>>
    /\ cmdFor = [i \in {1, 2} |-> "none"]
    /\ stall = {}

\* setup(): both LED pins driven LOW, then both indicators applied (OFF).
\* It runs at boot, before millis() has left 0.
Setup ==
    /\ pc = "setup"
    /\ LET r1 == applyModeImmediate(P1, clock)
           r2 == applyModeImmediate(P2, clock)
           calls == <<Call("digitalWrite", P1_LED_PIN, LOW),
                      Call("digitalWrite", P2_LED_PIN, LOW)>>
                    \o r1.out \o r2.out
       IN /\ P1' = r1.pl
          /\ P2' = r2.pl
          /\ log' = calls
          /\ pins' = WritePins(pins, calls)
    /\ pc' = "button"
    /\ UNCHANGED <<clock, now, lastState, keys, rx, iter, cmdFor, stall>>

\* Keys held after a sequence of calls (Keyboard.press / releaseAll).
RECURSIVE PressKeys(_, _)
PressKeys(k, calls) ==
    IF calls = <<>> THEN k
    ELSE LET c == Head(calls)
         IN PressKeys(CASE c.op = "press" -> k \cup {c.arg}
                        [] c.op = "releaseAll" -> {}
                        [] OTHER -> k,
                      Tail(calls))

\* Mutant of PressedEdge: the level is tested, not the edge.
PressedEdgeOnLevel(state, last) == state = HIGH

\* The press-edge test of loop().
PressedEdge(state, last) == state = HIGH /\ last = LOW

\* Mutant of ButtonCalls: the key is pressed and never released.
ButtonCallsNoRelease(state, last) ==
    <<Call("digitalRead", BUTTON_PIN, state),
      Call("digitalWrite", BUTTON_LED, IF state = HIGH THEN HIGH ELSE LOW)>>
    \o (IF state = HIGH /\ last = LOW
        THEN <<Call("digitalWrite", PI_LED, HIGH),
               Call("press", " ", ""),
               Call("delay", "HoldMs", "")>>
        ELSE <<Call("digitalWrite", PI_LED, LOW)>>)

\* Calls made by the button part of loop() for sample `state`.
ButtonCalls(state, last) ==
    <<Call("digitalRead", BUTTON_PIN, state),
      Call("digitalWrite", BUTTON_LED, IF state = HIGH THEN HIGH ELSE LOW)>>
    \o (IF PressedEdge(state, last)
        THEN <<Call("digitalWrite", PI_LED, HIGH),
               Call("press", " ", ""),
               Call("delay", "HoldMs", ""),
               Call("releaseAll", "", "")>>
        ELSE <<Call("digitalWrite", PI_LED, LOW)>>)

\* loop(), first part: read the clock, sample the button, mirror it, emit the
\* key on a press edge (blocking for HoldMs), remember the sample.
LoopButton(state, passes) ==
    /\ pc = "button"
    /\ iter < passes
    /\ now' = clock
    /\ LET calls == ButtonCalls(state, lastState)
       IN /\ log' = calls
          /\ pins' = WritePins(pins, calls)
          /\ keys' = PressKeys(keys, calls)
    /\ clock' = clock + (IF PressedEdge(state, lastState) THEN HoldMs ELSE 0)
    /\ lastState' = state
    /\ pc' = "serial"
    /\ UNCHANGED <<P1, P2, rx, iter, cmdFor, stall>>

\* Mutant of SetOne: a Solid indicator keeps its mode (an override lock).
SetOneKeepsSolid(pl, m, ms) ==
    IF pl.mode = SOLID_ON
    THEN [pl |-> pl, out |-> <<>>]
    ELSE LET r == applyModeImmediate([pl EXCEPT !.mode = m], ms)
         IN [pl |-> r.pl, out |-> <<Call("mode", pl.pin, pl.mode)>> \o r.out]

\* `Px.mode = m; applyModeImmediate(Px);` for one indicator.  The entry
\* "mode" records the assignment together with the mode it replaces.
SetOne(pl, m, ms) ==
    LET r == applyModeImmediate([pl EXCEPT !.mode = m], ms)
    IN [pl |-> r.pl, out |-> <<Call("mode", pl.pin, pl.mode)>> \o r.out]

\* Mutant of SetBoth: a both-indicator command acts on P1 only.
SetBothOnlyFirst(p1, p2, m, ms, ms2) ==
    LET r1 == applyModeImmediate([p1 EXCEPT !.mode = m], ms)
    IN [P1 |-> r1.pl, P2 |-> p2,
        out |-> <<Call("mode", p1.pin, p1.mode)>> \o r1.out,
        reads |-> 1]

\* `P1.mode = m; P2.mode = m; applyModeImmediate(P1); applyModeImmediate(P2);`
\* ms and ms2 are what millis() returns in the first and the second call.
SetBoth(p1, p2, m, ms, ms2) ==
    LET r1 == applyModeImmediate([p1 EXCEPT !.mode = m], ms)
        r2 == applyModeImmediate([p2 EXCEPT !.mode = m], ms2)
    IN [P1 |-> r1.pl, P2 |-> r2.pl,
        out |-> <<Call("mode", p1.pin, p1.mode), Call("mode", p2.pin, p2.mode)>>
                \o r1.out \o r2.out,
        reads |-> 2]

\* Mutant of UnknownByte: the default case falls into the all-off case.
UnknownByteTurnsOff(p1, p2) ==
    [P1 |-> [p1 EXCEPT !.mode = OFF_MODE, !.currentLevel = LOW],
     P2 |-> [p2 EXCEPT !.mode = OFF_MODE, !.currentLevel = LOW],
     out |-> <<Call("digitalWrite", p1.pin, LOW),
               Call("digitalWrite", p2.pin, LOW)>>,
     reads |-> 0]

\* `default: break;`
UnknownByte(p1, p2) == [P1 |-> p1, P2 |-> p2, out |-> <<>>, reads |-> 0]

\* The switch of loop() on the byte read.  `reads` is the number of millis()
\* calls made.
SerialCommand(c, p1, p2, ms, ms2) ==
    LET only1(m) == LET r == SetOne(p1, m, ms)
                    IN [P1 |-> r.pl, P2 |-> p2, out |-> r.out, reads |-> 1]
        only2(m) == LET r == SetOne(p2, m, ms)
                    IN [P1 |-> p1, P2 |-> r.pl, out |-> r.out, reads |-> 1]
    IN CASE c = "A" -> only1(SOLID_ON)
         [] c = "a" -> only1(OFF_MODE)
         [] c = "B" -> only2(SOLID_ON)
         [] c = "b" -> only2(OFF_MODE)
         [] c = "Y" -> SetBoth(p1, p2, SOLID_ON, ms, ms2)
         [] c = "X" -> SetBoth(p1, p2, OFF_MODE, ms, ms2)
         [] c = "1" -> only1(BLINK_1HZ)
         [] c = "2" -> only1(BLINK_2HZ)
         [] c = "3" -> only1(BLINK_4HZ)
         [] c = "4" -> only2(BLINK_1HZ)
         [] c = "5" -> only2(BLINK_2HZ)
         [] c = "6" -> only2(BLINK_4HZ)
         [] OTHER -> UnknownByte(p1, p2)

\* The command table of the specification: the indicators a byte names.
Targets(c) ==
    CASE c \in {"A", "a", "1", "2", "3"} -> {1}
      [] c \in {"B", "b", "4", "5", "6"} -> {2}
      [] c \in {"Y", "X"} -> {1, 2}
      [] OTHER -> {}

\* Indicators (1, 2) a sequence of calls assigned a mode to.
Assigned(calls) ==
    {i \in {1, 2} :
        \E k \in 1..Len(calls) :
            /\ calls[k].op = "mode"
            /\ calls[k].arg = (IF i = 1 THEN P1_LED_PIN ELSE P2_LED_PIN)}

\* Mutant of SerialAvailable: one byte more is reported than is buffered.
SerialAvailableOneMore(buf) == Len(buf) + 1

\* Serial.available() and Serial.read() on the receive buffer `buf`: read
\* returns the oldest byte and leaves the others, and returns -1 when there
\* is none.
SerialAvailable(buf) == Len(buf)

\* Mutant of SerialRead: the newest byte is returned and the buffer emptied.
SerialReadNewest(buf) == [c |-> buf[Len(buf)], rest |-> <<>>]

SerialRead(buf) ==
    IF buf = <<>>
    THEN [c |-> "-1", rest |-> <<>>]
    ELSE [c |-> Head(buf), rest |-> Tail(buf)]

\* loop(), second part: if a byte is available, read one and act on it.
\* j is the time millis() has advanced, beyond any key hold, between the
\* clock read at the top of the pass and the first applyModeImmediate call;
\* j2 the time between the two calls of a two-indicator command.  The clock
\* is observed only by millis(), so time that passes where no call reads it
\* is accounted to the end of the pass (LoopBlink).
LoopSerial(j, j2) ==
    /\ pc = "serial"
    /\ IF ~(SerialAvailable(rx) > 0)
       THEN /\ j = 0 /\ j2 = 0
            /\ log' = <<Call("available", "", "")>>
            /\ UNCHANGED <<P1, P2, pins, rx, clock, cmdFor, stall>>
       ELSE LET c == SerialRead(rx).c
                r == SerialCommand(c, P1, P2, clock + j, clock + j + j2)
            IN /\ j = 0 \/ r.reads >= 1
               /\ j2 = 0 \/ r.reads = 2
               /\ P1' = r.P1
               /\ P2' = r.P2
               /\ log' = <<Call("available", "", ""), Call("read", "", c)>>
                         \o r.out
               /\ pins' = WritePins(pins, r.out)
               /\ rx' = SerialRead(rx).rest
               /\ clock' = clock + j + j2
               /\ cmdFor' = [i \in {1, 2} |->
                                IF i \in Targets(c) THEN c ELSE cmdFor[i]]
               /\ stall' = stall \ Assigned(r.out)
    /\ pc' = "blink"
    /\ UNCHANGED <<now, lastState, keys, iter>>

\* Indicator i's latest flip, if this tick makes one, skipped periods.
Skipped(pl, r, t) ==
    /\ r.out # <<>>
    /\ ULongDiffGe(t, pl.lastToggleMs, 2 * modeToInterval(pl.mode))

\* Mutant of LoopBlink: P2 is ticked with a clock value read after the tick
\* of P1, one millisecond later than now.
LoopBlinkSecondReadsClock(d) ==
    /\ pc = "blink"
    /\ LET r1 == updateBlink(P1, now)
           r2 == updateBlink(P2, now + 1)
           calls == r1.out \o r2.out \o <<Call("delay", "IdleMs", "")>>
       IN /\ P1' = r1.pl
          /\ P2' = r2.pl
          /\ log' = calls
          /\ pins' = WritePins(pins, calls)
          /\ stall' = stall
    /\ clock' = clock + IdleMs + d
    /\ iter' = iter + 1
    /\ pc' = "button"
    /\ UNCHANGED <<now, lastState, keys, rx, cmdFor>>

\* loop(), last part: tick both indicators with the clock value read at the
\* top of the pass, then delay(1).  d is the time the pass takes beyond that.
LoopBlink(d) ==
    /\ pc = "blink"
    /\ LET r1 == updateBlink(P1, now)
           r2 == updateBlink(P2, now)
           calls == r1.out \o r2.out \o <<Call("delay", "IdleMs", "")>>
       IN /\ P1' = r1.pl
          /\ P2' = r2.pl
          /\ log' = calls
          /\ pins' = WritePins(pins, calls)
          /\ stall' = ((stall \ {i \in {1, 2} :
                                   (IF i = 1 THEN r1 ELSE r2).out # <<>>})
                       \cup {i \in {1, 2} :
                               Skipped(IF i = 1 THEN P1 ELSE P2,
                                       IF i = 1 THEN r1 ELSE r2, now)})
    /\ clock' = clock + IdleMs + d
    /\ iter' = iter + 1
    /\ pc' = "button"
    /\ UNCHANGED <<now, lastState, keys, rx, cmdFor>>

\* The UART delivers a byte into the receive buffer.  loop() looks at the
\* buffer only in its serial part, so an arrival anywhere else in a pass is
\* the same arrival just before the next serial part.
Receive(b, cap) ==
    /\ pc = "serial"
    /\ Len(rx) < cap
    /\ rx' = Append(rx, b)
    /\ UNCHANGED <<pc, clock, now, lastState, P1, P2, pins, keys, iter, log,
                   cmdFor, stall>>

\* The program in an environment that delivers bytes of `bytes` into a
\* buffer of `cap` bytes, presents button levels of `samples`, lets millis()
\* advance by one of `jitter` between two reads inside a pass and stalls a
\* pass by one of `stalls`, for `passes` passes of loop().
Step(bytes, cap, samples, jitter, stalls, passes) ==
    \/ Setup
    \/ \E state \in samples : LoopButton(state, passes)
    \/ \E j \in jitter, j2 \in jitter : LoopSerial(j, j2)
    \/ \E d \in stalls : LoopBlink(d)
    \/ \E b \in bytes : Receive(b, cap)

\* Every byte and the button, coarse timing.
Next == Step(Bytes, MaxRx, Levels, {0}, CoarseStalls, MaxIter)

Spec == Init /\ [][Next]_vars

\* Few bytes and a button at rest, fine timing.
NextTiming == Step(TimingBytes, MaxRxT, {HIGH}, Jitter, Stalls, MaxIterT)

SpecTiming == Init /\ [][NextTiming]_vars

\* The clock values that loop() reads at the top of its passes in the
\* end-to-end run: millis() is 0 at the first pass, 60 at the second, ...
ScenarioReads == <<0, 60, 125, 190, 250, 300, 375>>

\* What a pass of that run takes beyond delay(1): as much as brings millis()
\* to the value the next pass reads.
ScenarioStalls ==
    IF iter + 2 <= Len(ScenarioReads)
    THEN {d \in {ScenarioReads[iter + 2] - clock - IdleMs} : d >= 0}
    ELSE {0}

\* In that run one byte arrives, in the first pass.
ScenarioCap == IF iter = 0 THEN 1 ELSE 0

\* One command at the start, the clock of the end-to-end run.
NextScenario ==
    Step({"3"}, ScenarioCap, Levels, Jitter, ScenarioStalls,
         Len(ScenarioReads))

SpecScenario == Init /\ [][NextScenario]_vars

\* Bytes that put P1 and P2 into blink modes.
PhaseBytes == {"2", "3", "5", "6"}

\* Both indicators blinking, a button at rest, fine timing.
NextPhase == Step(PhaseBytes, MaxRxP, {HIGH}, Jitter, Stalls, MaxIterP)

SpecPhase == Init /\ [][NextPhase]_vars

\* Bytes that start and stop blinking.
LiveBytes == {"2", "6", "a"}

\* Passes in which the clock advances by 125 or 250 ms.
LiveStalls == {124, 249}

\* An advancing clock, a button at rest.
NextLive == Step(LiveBytes, MaxRxL, {HIGH}, Jitter, LiveStalls, MaxIterL)

\* The steps of the program: setup() once, then loop() over and over.  The
\* arrival of a byte is no step of the program.
Loop ==
    \/ Setup
    \/ LoopButton(HIGH, MaxIterL)
    \/ \E j \in Jitter, j2 \in Jitter : LoopSerial(j, j2)
    \/ \E d \in LiveStalls : LoopBlink(d)

\* The core calls loop() again whenever it returns: the program is never
\* stopped at a point where it can take a step.
SpecLive == Init /\ [][NextLive]_vars /\ WF_vars(Loop)

\* ------------------------------------------------------------------ claims
BlinkModes == {BLINK_1HZ, BLINK_2HZ, BLINK_4HZ}
Ind(i) == IF i = 1 THEN P1 ELSE P2
IndNext(i) == IF i = 1 THEN P1' ELSE P2'
\* The steps of a pass, as actions.
ButtonStep == pc = "button" /\ pc' = "serial"
SerialStep == pc = "serial" /\ pc' = "blink"
BlinkStep == pc = "blink" /\ pc' = "button"
\* Calls of kind op in a sequence of calls.
CallsOf(calls, op) == {k \in 1..Len(calls) : calls[k].op = op}
\* Writes to pin in a sequence of calls.
WritesTo(calls, pin) ==
    {k \in CallsOf(calls, "digitalWrite") : calls[k].arg = pin}

\* C1: in a pass in which a command puts an indicator into a blink mode, the
\* tick of that indicator in the same pass does not flip its level, however
\* far the clock advanced between the clock read of the pass and the command.
\* (In state pc = "blink" the log is that of the serial part of the pass.)
C1_NoFlipInPassOfModeSwitch ==
    [][BlinkStep =>
        \A i \in Assigned(log) :
            Ind(i).mode \in BlinkModes
            => IndNext(i).currentLevel = Ind(i).currentLevel]_vars

\* C2 as claimed: every byte available when the serial part of a pass starts
\* has been read when the indicators are ticked.
C2_DrainsAllAvailable ==
    [][SerialStep => rx' = <<>>]_vars

\* C2 as amended: the serial part of a pass reads exactly one byte, the
\* oldest, when any is available, and none otherwise; the other bytes stay
\* in the buffer in arrival order.
C2_ReadsOldestByteOnly ==
    [][SerialStep =>
        IF rx = <<>>
        THEN rx' = <<>> /\ CallsOf(log', "read") = {}
        ELSE /\ rx' = Tail(rx)
             /\ Cardinality(CallsOf(log', "read")) = 1
             /\ \A k \in CallsOf(log', "read") : log'[k].val = Head(rx)]_vars

\* C2 witness: a byte was read and a byte that was available with it is
\* still waiting when the indicators are about to be ticked.
C2_Witness ==
    /\ pc = "blink"
    /\ CallsOf(log, "read") # {}
    /\ rx # <<>>

\* C3: a tick of an indicator in a blink mode flips its level if and only if
\* now - last_toggle >= period (so not at T+P-1, and at T+P, after a mode set
\* at T), and a flip sets last_toggle to now.
C3_FlipsIffPeriodElapsed ==
    [][BlinkStep =>
        \A i \in {1, 2} :
            Ind(i).mode \in BlinkModes
            => /\ (IndNext(i).currentLevel # Ind(i).currentLevel)
                  <=> (now - Ind(i).lastToggleMs >= modeToInterval(Ind(i).mode))
               /\ (IndNext(i).currentLevel # Ind(i).currentLevel)
                  => IndNext(i).lastToggleMs = now]_vars

\* C4: after an indicator in one blink mode is switched to another blink
\* mode at S, no tick with now < S + P' flips its level, P' being the new
\* period.  Stated for the tick of the pass that makes the switch, where S
\* is the indicator's lastToggleMs and the log names the mode replaced.
C4_NoFlipBeforeNewPeriod ==
    [][BlinkStep =>
        \A i \in {1, 2} :
            (/\ Ind(i).mode \in BlinkModes
             /\ \E k \in CallsOf(log, "mode") :
                    /\ log[k].arg = Ind(i).pin
                    /\ log[k].val \in BlinkModes \ {Ind(i).mode}
             /\ now < Ind(i).lastToggleMs + modeToInterval(Ind(i).mode))
            => IndNext(i).currentLevel = Ind(i).currentLevel]_vars

\* C5: a command that puts an indicator into a blink mode leaves its level
\* and its output pin alone, whatever mode it replaces; it changes only the
\* mode and sets last_toggle to the clock reading of the moment.
C5_BlinkModeSetKeepsLevel ==
    [][SerialStep =>
        \A i \in Assigned(log') :
            IndNext(i).mode \in BlinkModes
            => /\ IndNext(i).currentLevel = Ind(i).currentLevel
               /\ IndNext(i).pin = Ind(i).pin
               /\ WritesTo(log', Ind(i).pin) = {}
               /\ pins'[Ind(i).pin] = pins[Ind(i).pin]
               /\ IndNext(i).lastToggleMs = clock'
               /\ clock' >= now']_vars

\* C5 witness: P1 was Solid, has just been put into a blink mode and is
\* still High.
C5_Witness ==
    /\ pc = "blink"
    /\ P1.mode \in BlinkModes
    /\ P1.currentLevel = HIGH
    /\ \E k \in CallsOf(log, "mode") :
           log[k].arg = P1_LED_PIN /\ log[k].val = SOLID_ON

\* C6: an Off indicator is Low and a Solid one High, on its pin too; the
\* command that makes it so writes that level, and a tick writes nothing to
\* the pin of an indicator in a static mode.
C6_StaticModesHoldLevel ==
    \A i \in {1, 2} :
        LET lvl == IF Ind(i).mode = OFF_MODE THEN LOW ELSE HIGH
        IN Ind(i).mode \in {OFF_MODE, SOLID_ON}
           => /\ Ind(i).currentLevel = lvl
              /\ pc # "setup" => pins[Ind(i).pin] = lvl
              /\ (pc = "blink" /\ i \in Assigned(log))
                 => \E k \in WritesTo(log, Ind(i).pin) : log[k].val = lvl
              /\ (pc = "button" /\ iter > 0)
                 => WritesTo(log, Ind(i).pin) = {}

\* C6 witness: P1 was set Solid by 'A', was High before that command and
\* after it, and has since been ticked more than a blink period later.
C6_Witness ==
    /\ pc = "button"
    /\ iter >= 2
    /\ cmdFor[1] = "A"
    /\ P1.mode = SOLID_ON
    /\ now >= P1.lastToggleMs + modeToInterval(BLINK_4HZ)

\* C7: a tick that finds two or more periods elapsed flips the level once,
\* with one write, and sets last_toggle to now; the periods missed are not
\* made up by later ticks: until a further period has elapsed from that now
\* the indicator does not flip.
C7_SingleTogglePerTick ==
    [][BlinkStep =>
        \A i \in {1, 2} :
            Ind(i).mode \in BlinkModes
            => LET P == modeToInterval(Ind(i).mode)
                   elapsed == now - Ind(i).lastToggleMs
                   flipped == IndNext(i).currentLevel # Ind(i).currentLevel
               IN /\ Cardinality(WritesTo(log', Ind(i).pin)) <= 1
                  /\ elapsed >= 2 * P
                     => /\ flipped
                        /\ Cardinality(WritesTo(log', Ind(i).pin)) = 1
                        /\ IndNext(i).lastToggleMs = now
                        /\ i \in stall'
                  /\ (i \in stall /\ elapsed < P)
                     => /\ elapsed >= 0
                        /\ ~flipped
                        /\ WritesTo(log', Ind(i).pin) = {}
                        /\ IndNext(i) = Ind(i)]_vars

\* C7 witness: P1's latest flip skipped periods, and a later tick, less than
\* a period after it, has left P1 alone.
C7_Witness ==
    /\ pc = "button"
    /\ 1 \in stall
    /\ P1.mode \in BlinkModes
    /\ now > P1.lastToggleMs
    /\ now - P1.lastToggleMs < modeToInterval(P1.mode)

\* The command table of the specification: the bytes that are commands and
\* the mode each sets.
Commands == {"A", "a", "B", "b", "Y", "X", "1", "2", "3", "4", "5", "6"}
TableMode(c) ==
    CASE c \in {"A", "B", "Y"} -> SOLID_ON
      [] c \in {"a", "b", "X"} -> OFF_MODE
      [] c \in {"1", "4"} -> BLINK_1HZ
      [] c \in {"2", "5"} -> BLINK_2HZ
      [] c \in {"3", "6"} -> BLINK_4HZ

\* C8: consuming a byte outside the command table changes neither indicator
\* and writes to no output, and the pass goes on to the ticks.
C8_UnknownByteIgnored ==
    [][(SerialStep /\ rx # <<>> /\ Head(rx) \notin Commands) =>
        /\ P1' = P1
        /\ P2' = P2
        /\ pins' = pins
        /\ CallsOf(log', "digitalWrite") = {}
        /\ CallsOf(log', "mode") = {}
        /\ rx' = Tail(rx)]_vars

\* C8 witness: a byte outside the table has just been read.
C8_Witness ==
    /\ pc = "blink"
    /\ \E k \in CallsOf(log, "read") : log[k].val \notin Commands

\* C9: each indicator is in the mode set by the last consumed byte that
\* names it (Off when none has); so after Y and then b, P1 is Solid and High
\* and P2 is Off and Low.
C9_LaterCommandWins ==
    /\ \A i \in {1, 2} :
           Ind(i).mode = (IF cmdFor[i] = "none" THEN OFF_MODE
                          ELSE TableMode(cmdFor[i]))
    /\ (cmdFor[1] = "Y" /\ cmdFor[2] = "b")
       => /\ P1.mode = SOLID_ON /\ P1.currentLevel = HIGH
          /\ pins[P1_LED_PIN] = HIGH
          /\ P2.mode = OFF_MODE /\ P2.currentLevel = LOW
          /\ pins[P2_LED_PIN] = LOW

\* C9 witness: b has just been consumed, Y being the last byte consumed
\* before it.
C9_Witness ==
    /\ pc = "blink"
    /\ cmdFor = <<"Y", "b">>
    /\ \E k \in CallsOf(log, "read") : log[k].val = "b"

\* C10: in every pass the status output is High and the key is emitted
\* exactly when the previous sample is Low and the level read is High;
\* otherwise the status output is Low and no key call is made.  The level
\* read becomes the previous sample in every pass, and is mirrored.
C10_RisingEdgeOnly ==
    [][ButtonStep =>
        LET raw == log'[1].val
            edge == lastState = LOW /\ raw = HIGH
        IN /\ log'[1].op = "digitalRead"
           /\ lastState' = raw
           /\ pins'[BUTTON_LED] = raw
           /\ pins'[PI_LED] = (IF edge THEN HIGH ELSE LOW)
           /\ (CallsOf(log', "press") # {}) <=> edge
           /\ (CallsOf(log', "releaseAll") # {}) <=> edge
           /\ Cardinality(CallsOf(log', "press")) <= 1
           /\ keys' = {}]_vars

\* C10 witness: a press edge has just been detected.
C10_Witness ==
    /\ pc = "serial"
    /\ CallsOf(log, "press") # {}
    /\ pins[PI_LED] = HIGH
    /\ lastState = HIGH

\* The level of P1 after each pass of the end-to-end run.
ScenarioLevels == <<LOW, LOW, HIGH, HIGH, LOW, LOW, HIGH>>

\* C11: from startup, with byte '3' applied in the pass whose clock read is
\* 0 and the passes reading the clock at 0, 60, 125, 190, 250, 300, 375, the
\* level of P1 after the passes is Low, Low, High, High, Low, Low, High and
\* P2 stays off and low.  (In state pc = "button" with iter = k, pass k has
\* just ended and now is its clock read.)
C11_EndToEndLevels ==
    (/\ pc = "button"
     /\ iter \in 1..Len(ScenarioReads)
     /\ now = ScenarioReads[iter]
     /\ cmdFor[1] = "3")
    => /\ P1.currentLevel = ScenarioLevels[iter]
       /\ P2.mode = OFF_MODE
       /\ P2.currentLevel = LOW

\* C12: a tick of an indicator in a blink mode with now - last_toggle
\* strictly less than the period of the mode changes none of mode, level and
\* last_toggle and writes nothing to the indicator's output (so that any
\* number of such ticks in a row leaves the indicator as it was).
C12_BelowThresholdTickIsNoOp ==
    [][BlinkStep =>
        \A i \in {1, 2} :
            (/\ Ind(i).mode \in BlinkModes
             /\ now - Ind(i).lastToggleMs < modeToInterval(Ind(i).mode))
            => /\ IndNext(i) = Ind(i)
               /\ WritesTo(log', Ind(i).pin) = {}]_vars

\* C13: a recognised byte sets the mode of exactly the indicators the
\* command table lists for it to the mode the table lists; an indicator the
\* byte does not name keeps its mode, level and last_toggle and nothing is
\* written to its output; bytes are case-sensitive, 'y' and 'x' name no
\* indicator.  The byte is the oldest one in the receive buffer.
C13_CommandTableAndFrame ==
    [][(SerialStep /\ rx # <<>>) =>
        \A i \in {1, 2} :
            IF i \in Targets(Head(rx))
            THEN IndNext(i).mode = TableMode(Head(rx))
            ELSE /\ IndNext(i) = Ind(i)
                 /\ WritesTo(log', Ind(i).pin) = {}]_vars

\* C13 witness: 'b' has just been applied to P2 after 'Y' had set both
\* indicators: P2 is off and P1 is as 'Y' left it.
C13_Witness ==
    /\ pc = "blink"
    /\ \E k \in CallsOf(log, "read") : log[k].val = "b"
    /\ cmdFor[1] = "Y"
    /\ P1.mode = SOLID_ON /\ P1.currentLevel = HIGH
    /\ P2.mode = OFF_MODE /\ P2.currentLevel = LOW
    /\ WritesTo(log, P1_LED_PIN) = {}

\* C14: a key emission is press, then hold, then release-all, inside the
\* button part of one pass and so before the pass reads any command byte;
\* no other part of the program presses a key; after every step, hence at the
\* end of every pass, no key is held; and a pass presses at most once, and
\* only when its sample is High after a Low sample, so that the key-downs
\* never outnumber the Low-to-High transitions of the sampled levels.
C14_KeyEmissionBalanced ==
    [][/\ keys' = {}
       /\ (pc' # pc /\ CallsOf(log', "press") # {}) => ButtonStep
       /\ ButtonStep =>
            /\ CallsOf(log', "read") = {}
            /\ Cardinality(CallsOf(log', "press"))
               <= (IF lastState = LOW /\ lastState' = HIGH THEN 1 ELSE 0)
            /\ \A k \in CallsOf(log', "press") :
                 /\ k + 2 <= Len(log')
                 /\ log'[k + 1] = Call("delay", "HoldMs", "")
                 /\ log'[k + 2] = Call("releaseAll", "", "")]_vars

\* C14 witness: the key has just been pressed, held and released while a
\* command byte is waiting unread.
C14_Witness ==
    /\ pc = "serial"
    /\ CallsOf(log, "press") # {}
    /\ CallsOf(log, "releaseAll") # {}
    /\ keys = {}
    /\ rx # <<>>

\* C15: the byte source is never read when empty: every call of read is
\* made in the serial part of a pass, directly after the call of available
\* of that pass, and with at least one byte in the receive buffer.
C15_ReadOnlyWhenAvailable ==
    [][pc' # pc =>
        \A k \in CallsOf(log', "read") :
            /\ pc = "serial"
            /\ rx # <<>>
            /\ log'[k].val = Head(rx)
            /\ k > 1
            /\ log'[k - 1] = Call("available", "", "")]_vars

\* C15 witness: the only byte of the buffer has been read after the check.
C15_Witness ==
    /\ pc = "blink"
    /\ rx = <<>>
    /\ \E k \in CallsOf(log, "read") :
          k > 1 /\ log[k - 1].op = "available"

\* C16: in every state from the end of setup() on, the level each indicator
\* records is the level last written to its pin.
C16_LevelRecordMatchesPin ==
    pc # "setup" =>
        /\ pins[P1.pin] = P1.currentLevel
        /\ pins[P2.pin] = P2.currentLevel

\* C16 witness: a tick has just flipped the blinking P2 to High.
C16_Witness ==
    /\ pc = "button"
    /\ P2.mode \in BlinkModes
    /\ WritesTo(log, P2_LED_PIN) # {}
    /\ P2.currentLevel = HIGH
    /\ pins[P2_LED_PIN] = HIGH

\* C19: whenever updateBlink is called on an indicator in a blink mode, the
\* indicator's lastToggleMs is at most the now argument, so that the
\* unsigned difference now - lastToggleMs is the elapsed time and no wrapped
\* value.  (In state pc = "blink" both calls are about to be made, with now.)
C19_LastToggleNotAfterNow ==
    pc = "blink" =>
        \A i \in {1, 2} :
            Ind(i).mode \in BlinkModes => Ind(i).lastToggleMs <= now

\* C17: both indicators are ticked with the same now, so a tick that finds
\* P1 and P2 in the same blink mode with equal last_toggle values flips both
\* or neither and leaves their last_toggle values equal; as a mode is set
\* only in the serial part of a pass, the two stay in phase from pass to
\* pass until a command is applied to one of them.
C17_PhaseConsistency ==
    [][(/\ BlinkStep
        /\ P1.mode \in BlinkModes
        /\ P1.mode = P2.mode
        /\ P1.lastToggleMs = P2.lastToggleMs)
       => /\ (P1'.currentLevel # P1.currentLevel)
             <=> (P2'.currentLevel # P2.currentLevel)
          /\ P1'.lastToggleMs = P2'.lastToggleMs
          /\ P1'.mode = P2'.mode]_vars

\* C17 witness: P1 and P2 are in the same blink mode with equal last_toggle
\* values, P1 has flipped before, no command was applied in this pass and
\* a period has elapsed: the tick about to be made flips both.
C17_Witness ==
    /\ pc = "blink"
    /\ P1.mode \in BlinkModes
    /\ P1.mode = P2.mode
    /\ P1.lastToggleMs = P2.lastToggleMs
    /\ P1.currentLevel = HIGH
    /\ Assigned(log) = {}
    /\ now - P1.lastToggleMs >= modeToInterval(P1.mode)

\* Indicator i has just been flipped by a tick.
Flipped(i) ==
    /\ pc = "button"
    /\ iter >= 1
    /\ WritesTo(log, Ind(i).pin) # {}

\* A command has just set the mode of indicator i.
ModeSet(i) == pc = "blink" /\ i \in Assigned(log)

\* C18: an indicator in a blink mode to which no further command is applied
\* keeps flipping while loop() keeps running and the clock advances: every
\* state in which it is in a blink mode is followed by a flip of it, unless
\* a command sets its mode first.  Stated for the states that leave two
\* passes of the model to come, as many as the longest period explored
\* (250 ms) takes with the smallest clock advance explored (125 ms).
C18_BlinkProgress ==
    \A i \in {1, 2} :
        [](((Ind(i).mode \in BlinkModes) /\ iter <= MaxIterL - 2)
           => <>(Flipped(i) \/ ModeSet(i)))

\* C18 witness: the last pass has flipped P1, blinking at 2 Hz, back to Low.
C18_Witness ==
    /\ pc = "button"
    /\ iter = MaxIterL
    /\ P1.mode = BLINK_2HZ
    /\ WritesTo(log, P1_LED_PIN) # {}
    /\ P1.currentLevel = LOW
    /\ now - P1.lastToggleMs = 0
    /\ rx = <<>>
====
